---- MODULE Spec2Model ----
(***************************************************************************)
(* ConvertPointCloud (src/Tools/ConvertPointCloud.cpp): the batch driver   *)
(* main() and the stage pipeline convert().                                *)
(*                                                                         *)
(* A command-line token is a sequence of lexical atoms (strings): an       *)
(* option name is one atom, a number is an optional "-" atom followed by   *)
(* digit atoms, a path is name atoms separated by "/" atoms.  Coordinates  *)
(* and option values are exact integers.                                   *)
(***************************************************************************)
EXTENDS Integers, Sequences, FiniteSets, TLC

\* Bounds of the model.
MaxOpts == 2        \* option groups on the command line of a single-file run
MaxPoints == 1      \* points of a point cloud read from a file
MaxFiles == 2       \* files of the source directory

\* std::numeric_limits<double>::max(); every coordinate and option value of
\* the model lies strictly inside (-DoubleMax, DoubleMax).
DoubleMax == 1000
DoubleLowest == -DoubleMax

----------------------------------------------------------------------------
(* Vectors *)

Dot(u, v) == u[1] * v[1] + u[2] * v[2] + u[3] * v[3]
Negated(u) == << -u[1], -u[2], -u[3] >>

Last(s) == s[Len(s)]
Front(s) == SubSeq(s, 1, Len(s) - 1)
Indices(n) == [i \in 1..n |-> i]

----------------------------------------------------------------------------
(* Command-line tokens *)

Opt(name) == <<name>>

OPT_HELP == Opt("--help")
OPT_H == Opt("-h")
OPT_VERBOSE == Opt("--verbose")
OPT_CLIP_X_MIN == Opt("--clip_x_min")
OPT_CLIP_X_MAX == Opt("--clip_x_max")
OPT_CLIP_Y_MIN == Opt("--clip_y_min")
OPT_CLIP_Y_MAX == Opt("--clip_y_max")
OPT_CLIP_Z_MIN == Opt("--clip_z_min")
OPT_CLIP_Z_MAX == Opt("--clip_z_max")
OPT_VOXEL_SAMPLE == Opt("--voxel_sample")
OPT_ESTIMATE_NORMALS == Opt("--estimate_normals")
OPT_ORIENT_NORMALS == Opt("--orient_normals")

ClipOptions ==
    { OPT_CLIP_X_MIN, OPT_CLIP_X_MAX, OPT_CLIP_Y_MIN,
      OPT_CLIP_Y_MAX, OPT_CLIP_Z_MIN, OPT_CLIP_Z_MAX }

----------------------------------------------------------------------------
(* Option parsing primitives (Core/Utility/Helper) *)

DigitValue ==
    ("0" :> 0) @@ ("1" :> 1) @@ ("2" :> 2) @@ ("3" :> 3) @@ ("4" :> 4) @@
    ("5" :> 5) @@ ("6" :> 6) @@ ("7" :> 7) @@ ("8" :> 8) @@ ("9" :> 9)

IsDigits(s) == Len(s) > 0 /\ \A i \in 1..Len(s) : s[i] \in DOMAIN DigitValue

RECURSIVE DigitsToNat(_)
DigitsToNat(s) ==
    IF s = <<>> THEN 0
    ELSE 10 * DigitsToNat(Front(s)) + DigitValue[Last(s)]

\* strtod/strtol consuming the whole token.
IsNumber(str) ==
    /\ Len(str) > 0
    /\ IF str[1] = "-" THEN IsDigits(Tail(str)) ELSE IsDigits(str)

NumberOf(str) ==
    IF str[1] = "-" THEN -DigitsToNat(Tail(str)) ELSE DigitsToNat(str)

ProgramOptionExists(av, option) == \E i \in 1..Len(av) : av[i] = option

ProgramOptionExistsAny(av, options) ==
    \E o \in options : ProgramOptionExists(av, o)

\* The token after the first occurrence of the option.
GetProgramOptionAsString(av, option, default_value) ==
    LET at == {i \in 1..Len(av) : av[i] = option}
    IN  IF at = {} THEN default_value
        ELSE LET i == CHOOSE k \in at : \A j \in at : k <= j
             IN  IF i + 1 <= Len(av) THEN av[i + 1] ELSE default_value

GetProgramOptionAsDouble(av, option, default_value) ==
    LET str == GetProgramOptionAsString(av, option, <<>>)
    IN  IF IsNumber(str) THEN NumberOf(str) ELSE default_value

GetProgramOptionAsInt(av, option, default_value) ==
    LET str == GetProgramOptionAsString(av, option, <<>>)
    IN  IF IsNumber(str) THEN NumberOf(str) ELSE default_value

RECURSIVE SplitString(_, _)
SplitString(str, sep) ==
    IF str = <<>> THEN <<>>
    ELSE LET at == {i \in 1..Len(str) : str[i] = sep}
             k == IF at = {} THEN Len(str) + 1
                  ELSE CHOOSE i \in at : \A j \in at : i <= j
             head == SubSeq(str, 1, k - 1)
             rest == SubSeq(str, k + 1, Len(str))
         IN  (IF head = <<>> THEN <<>> ELSE <<head>>) \o SplitString(rest, sep)

\* A bracketed, comma-separated list of numbers; anything else resolves to
\* the empty vector.
GetProgramOptionAsEigenVectorXd(av, option) ==
    LET str == GetProgramOptionAsString(av, option, <<>>)
    IN  IF \/ Len(str) < 2
           \/ str[1] \notin {"(", "[", "<"}
           \/ Last(str) \notin {")", "]", ">"}
        THEN <<>>
        ELSE LET tokens == SplitString(SubSeq(str, 2, Len(str) - 1), ",")
             IN  IF \A i \in 1..Len(tokens) : IsNumber(tokens[i])
                 THEN [i \in 1..Len(tokens) |-> NumberOf(tokens[i])]
                 ELSE <<>>

----------------------------------------------------------------------------
(* Paths (Core/Utility/FileSystem) *)

IsSeparator(a) == a \in {"/", "\\"}

GetRegularizedDirectoryName(directory) ==
    IF ~IsSeparator(Last(directory)) THEN directory \o <<"/">> ELSE directory

GetFileNameWithoutDirectory(filename) ==
    LET at == {i \in 1..Len(filename) : IsSeparator(filename[i])}
    IN  IF at = {} THEN filename
        ELSE LET slash_pos == CHOOSE i \in at : \A j \in at : j <= i
             IN  SubSeq(filename, slash_pos + 1, Len(filename))

----------------------------------------------------------------------------
(* Point clouds (Core/Geometry/PointCloud) *)

NoCloud == [points |-> <<>>, normals |-> <<>>]

HasNormals(c) == Len(c.points) > 0 /\ Len(c.normals) = Len(c.points)

Select(c, idx) ==
    [points  |-> [k \in 1..Len(idx) |-> c.points[idx[k]]],
     normals |-> IF HasNormals(c)
                 THEN [k \in 1..Len(idx) |-> c.normals[idx[k]]]
                 ELSE <<>>]

InBox(p, min_bound, max_bound) ==
    \A a \in 1..3 : min_bound[a] <= p[a] /\ p[a] <= max_bound[a]

\* The points inside [min_bound, max_bound] (inclusive), normals in lockstep.
CropPointCloud(input, min_bound, max_bound) ==
    Select(input, SelectSeq(Indices(Len(input.points)),
                            LAMBDA i : InBox(input.points[i], min_bound, max_bound)))

\* floor(x / y) for y > 0.
FloorDiv(x, y) == IF x >= 0 THEN x \div y ELSE -((-x + y - 1) \div y)

VoxelIndex(p, lo, voxel_size) ==
    [a \in 1..3 |-> FloorDiv(2 * (p[a] - lo[a]) + voxel_size, 2 * voxel_size)]

\* One representative vertex per occupied cell of the grid anchored half a
\* voxel below the cloud's minimum corner: the first vertex that falls in
\* the cell, cells in the order of their first vertex.
VoxelDownSample(input, voxel_size) ==
    LET n == Len(input.points)
        lo == [a \in 1..3 |->
                  CHOOSE m \in {input.points[i][a] : i \in 1..n} :
                      \A i \in 1..n : m <= input.points[i][a]]
        cell(i) == VoxelIndex(input.points[i], lo, voxel_size)
    IN  IF n = 0 THEN NoCloud
        ELSE Select(input, SelectSeq(Indices(n),
                 LAMBDA i : \A j \in 1..(i - 1) : cell(j) # cell(i)))

\* The estimate raw[i] of the normal at point i comes from the neighbourhood
\* search; each is given the sign that agrees with the existing normal.
EstimateNormalsWrtExisting(c, raw) ==
    [c EXCEPT !.normals =
        [i \in 1..Len(c.points) |->
            IF Dot(raw[i], c.normals[i]) < 0 THEN Negated(raw[i]) ELSE raw[i]]]

\* Each estimate is given the sign that agrees with orientation_reference.
EstimateNormalsToward(c, orientation_reference, raw) ==
    [c EXCEPT !.normals =
        [i \in 1..Len(c.points) |->
            IF Dot(raw[i], orientation_reference) < 0
            THEN Negated(raw[i]) ELSE raw[i]]]

----------------------------------------------------------------------------
(* Inputs: command lines, the object the source path names, file contents *)

PROGRAM == <<"ConvertPointCloud">>
SOURCE == <<"in">>
TARGET == <<"out">>

NUM_0 == <<"0">>
NUM_1 == <<"1">>
NUM_NEG1 == <<"-", "1">>
VEC_UP == <<"[", "0", ",", "0", ",", "1", "]">>
VEC_2D == <<"[", "1", ",", "0", "]">>

\* The help and stage options, each with its value.
StageOptionGroups ==
    { <<OPT_HELP>>, <<OPT_H>>,
      <<OPT_VOXEL_SAMPLE, NUM_1>>,
      <<OPT_ESTIMATE_NORMALS, NUM_1>>, <<OPT_ESTIMATE_NORMALS, NUM_0>>,
      <<OPT_ESTIMATE_NORMALS, NUM_NEG1>>,
      <<OPT_ORIENT_NORMALS, VEC_UP>>, <<OPT_ORIENT_NORMALS, VEC_2D>> }
    \cup { <<o, NUM_0>> : o \in ClipOptions }

OptionGroups == StageOptionGroups \cup { <<OPT_VERBOSE, NUM_0>> }

RECURSIVE Flatten(_)
Flatten(groups) ==
    IF groups = <<>> THEN <<>> ELSE Head(groups) \o Flatten(Tail(groups))

OptionLists(groups, n) == UNION { [1..k -> groups] : k \in 0..n }

\* Single runs: up to MaxOpts help and stage option groups, in any order,
\* repeats allowed.
SingleArgvs ==
    { <<PROGRAM, SOURCE, TARGET>> \o Flatten(g) :
        g \in OptionLists(StageOptionGroups, MaxOpts) }

\* Batch runs: the target with and without its trailing separator, and at
\* most one option group, --verbose included.
BatchArgvs ==
    { <<PROGRAM, SOURCE, t>> \o Flatten(g) :
        t \in {TARGET, TARGET \o <<"/">>},
        g \in OptionLists(OptionGroups, 1) }

ShortArgvs ==
    { <<PROGRAM>>, <<PROGRAM, SOURCE>>, <<PROGRAM, OPT_HELP>> }

ORIGIN == <<0, 0, 0>>
UP == <<0, 0, 1>>
DOWN == <<0, 0, -1>>
EAST == <<1, 0, 0>>

\* The origin and one point beyond it on either side of each axis.
Coords == {-1, 0, 1}
PointSet ==
    { p \in Coords \X Coords \X Coords :
        Cardinality({a \in 1..3 : p[a] # 0}) <= 1 }
NormalSet == {UP, DOWN}
RawNormals == {UP, DOWN, EAST}

CloudsOver(points, normals, n) ==
    UNION { { [points |-> ps, normals |-> ns] :
                ps \in [1..k -> points],
                ns \in {<<>>} \cup [1..k -> normals] } : k \in 0..n }

\* What the source file of a single run may hold.
FileClouds == CloudsOver(PointSet, NormalSet, MaxPoints)

\* What a file of the source directory may hold.
BatchClouds == CloudsOver({ORIGIN}, {UP}, MaxPoints)

FILE_ATOMS == <<"a", "b", "c", "d">>
FileNames == { <<FILE_ATOMS[i]>> : i \in 1..MaxFiles }

\* The enumerations of a directory: its files, in any order.
Listings(directory) ==
    { [i \in 1..Len(s) |-> GetRegularizedDirectoryName(directory) \o s[i]] :
        s \in { t \in UNION { [1..k -> FileNames] : k \in 0..MaxFiles } :
                  \A i, j \in 1..Len(t) : i # j => t[i] # t[j] } }

----------------------------------------------------------------------------
(* State *)

VARIABLES
    argv,           \* argv[1] is the program name (C++ argv[0])
    srcKind,        \* what argv[2] names on disk: "file", "dir" or "none"
    listing,        \* what ListFilesInDirectory yields for the source
    pc,             \* control point of main / convert
    batch,          \* convert was called from the directory loop
    filenames,      \* entries of the directory loop not yet visited
    file_in, file_out,
    cloud,          \* *pointcloud_ptr
    point_num_in, processed,
    verbosity,      \* the global verbosity level
    console,        \* lines handed to PrintHelp, PrintInfo, PrintError, in order
    made,           \* MakeDirectoryHierarchy calls, in order
    loads,          \* CreatePointCloudFromFile calls and outcomes, in order
    written,        \* WritePointCloud calls (paths), in order
    returned,       \* <<status>> once main has returned
    ran,            \* events of the current convert call, in order
    in_cloud,       \* the cloud the current convert call loaded
    prev,           \* the cloud before the latest stage step
    est_call,       \* the EstimateNormals overload the current call used
    console_in      \* the console when the current convert call began

vars ==
    << argv, srcKind, listing, pc, batch, filenames, file_in, file_out, cloud,
       point_num_in, processed, verbosity, console, made, loads, written,
       returned, ran, in_cloud, prev, est_call, console_in >>

env == << argv, srcKind, listing >>
locals ==
    << cloud, point_num_in, processed, ran, in_cloud, prev, est_call,
       console_in >>

Line(kind, n, m) == [kind |-> kind, from |-> n, to |-> m]
USAGE == Line("usage", 0, 0)
ERROR_NO_SOURCE == Line("error", 0, 0)

FileExists(path) == path = argv[2] /\ srcKind = "file"
DirectoryExists(path) == path = argv[2] /\ srcKind = "dir"
ListFilesInDirectory(directory) == listing

\* The cloud read from the file, or the failure of the read, which
\* propagates out of the caller.
CreatePointCloudFromFile(path) ==
    { [ok |-> TRUE, cloud |-> c] :
        c \in IF path = argv[2] THEN FileClouds ELSE BatchClouds }
        \cup { [ok |-> FALSE, cloud |-> NoCloud] }

Init ==
    /\ \/ /\ argv \in SingleArgvs
          /\ srcKind \in {"file", "none"}
       \/ /\ argv \in BatchArgvs
          /\ srcKind = "dir"
       \/ /\ argv \in ShortArgvs
          /\ srcKind \in {"file", "dir", "none"}
    /\ listing \in (IF srcKind = "dir" THEN Listings(SOURCE) ELSE {<<>>})
    /\ pc = "main"
    /\ batch = FALSE
    /\ filenames = <<>>
    /\ file_in = <<>>
    /\ file_out = <<>>
    /\ cloud = NoCloud
    /\ point_num_in = 0
    /\ processed = FALSE
    /\ verbosity = 2
    /\ console = <<>>
    /\ made = <<>>
    /\ loads = <<>>
    /\ written = <<>>
    /\ returned = <<>>
    /\ ran = <<>>
    /\ in_cloud = NoCloud
    /\ prev = NoCloud
    /\ est_call = "none"
    /\ console_in = <<>>

----------------------------------------------------------------------------
(* main *)

HelpRequested(av) ==
    \/ Len(av) < 3
    \/ ProgramOptionExists(av, OPT_HELP)
    \/ ProgramOptionExists(av, OPT_H)

\* lines 140-144
MainHelp ==
    /\ pc = "main"
    /\ HelpRequested(argv)
    /\ console' = Append(console, USAGE)
    /\ returned' = <<0>>
    /\ pc' = "exit"
    /\ UNCHANGED << env, locals, batch, filenames, file_in, file_out,
                    verbosity, made, loads, written >>

\* lines 146-150: the call of convert(argc, argv, argv[1], argv[2])
MainFile ==
    /\ pc = "main"
    /\ ~HelpRequested(argv)
    /\ FileExists(argv[2])
    /\ verbosity' = GetProgramOptionAsInt(argv, OPT_VERBOSE, 2)
    /\ batch' = FALSE
    /\ file_in' = argv[2]
    /\ file_out' = argv[3]
    /\ pc' = "load"
    /\ UNCHANGED << env, locals, filenames, console, made, loads, written,
                    returned >>

\* lines 146-154
MainDirectory ==
    /\ pc = "main"
    /\ ~HelpRequested(argv)
    /\ ~FileExists(argv[2])
    /\ DirectoryExists(argv[2])
    /\ verbosity' = GetProgramOptionAsInt(argv, OPT_VERBOSE, 2)
    /\ made' = Append(made, argv[3])
    /\ filenames' = ListFilesInDirectory(argv[2])
    /\ batch' = TRUE
    /\ pc' = "loop"
    /\ UNCHANGED << env, locals, file_in, file_out, console, loads, written,
                    returned >>

\* Faulty variant (C7): after the error, convert is called all the same.
MainMissing_ConvertsAnyway ==
    /\ pc = "main"
    /\ ~HelpRequested(argv)
    /\ ~FileExists(argv[2])
    /\ ~DirectoryExists(argv[2])
    /\ verbosity' = GetProgramOptionAsInt(argv, OPT_VERBOSE, 2)
    /\ console' = Append(console, ERROR_NO_SOURCE)
    /\ batch' = FALSE
    /\ file_in' = argv[2]
    /\ file_out' = argv[3]
    /\ pc' = "load"
    /\ UNCHANGED << env, locals, filenames, made, loads, written, returned >>

\* lines 146-149, 151, 159-161
MainMissing ==
    /\ pc = "main"
    /\ ~HelpRequested(argv)
    /\ ~FileExists(argv[2])
    /\ ~DirectoryExists(argv[2])
    /\ verbosity' = GetProgramOptionAsInt(argv, OPT_VERBOSE, 2)
    /\ console' = Append(console, ERROR_NO_SOURCE)
    /\ pc' = "return"
    /\ UNCHANGED << env, locals, batch, filenames, file_in, file_out, made,
                    loads, written, returned >>

\* Faulty variant (C2): the target directory name is not regularized.
LoopNext_Unregularized ==
    /\ pc = "loop"
    /\ filenames # <<>>
    /\ file_in' = Head(filenames)
    /\ file_out' = argv[3] \o GetFileNameWithoutDirectory(Head(filenames))
    /\ filenames' = Tail(filenames)
    /\ pc' = "load"
    /\ UNCHANGED << env, locals, batch, verbosity, console, made, loads,
                    written, returned >>

\* lines 155-157: the next entry, and the call of convert on it
LoopNext ==
    /\ pc = "loop"
    /\ filenames # <<>>
    /\ file_in' = Head(filenames)
    /\ file_out' = GetRegularizedDirectoryName(argv[3])
                       \o GetFileNameWithoutDirectory(Head(filenames))
    /\ filenames' = Tail(filenames)
    /\ pc' = "load"
    /\ UNCHANGED << env, locals, batch, verbosity, console, made, loads,
                    written, returned >>

\* Faulty variant (C8): the conventional status of success.
MainReturn_Zero ==
    /\ IF pc = "loop" THEN filenames = <<>> ELSE pc = "return"
    /\ returned' = <<0>>
    /\ pc' = "exit"
    /\ UNCHANGED << env, locals, batch, filenames, file_in, file_out,
                    verbosity, console, made, loads, written >>

\* line 163, reached from the single call, the end of the loop or the error
MainReturn ==
    /\ IF pc = "loop" THEN filenames = <<>> ELSE pc = "return"
    /\ returned' = <<1>>
    /\ pc' = "exit"
    /\ UNCHANGED << env, locals, batch, filenames, file_in, file_out,
                    verbosity, console, made, loads, written >>

----------------------------------------------------------------------------
(* convert *)

\* Faulty variant (C1): the voxel block placed before the clip block.
StageOrder_VoxelFirst ==
    << "voxel", "clip", "estimate", "orient", "write", "end" >>

\* The blocks of convert after the load, in the order of the code.
StageOrder == << "clip", "voxel", "estimate", "orient", "write", "end" >>

Following(stage) ==
    StageOrder[1 + CHOOSE i \in 1..Len(StageOrder) : StageOrder[i] = stage]

ClipActive(av) == ProgramOptionExistsAny(av, ClipOptions)

\* Faulty variant (C5): a missing minimum defaults to 0.0, the default of the
\* other numeric options.
MinBound_ZeroDefault(av) ==
    << GetProgramOptionAsDouble(av, OPT_CLIP_X_MIN, 0),
       GetProgramOptionAsDouble(av, OPT_CLIP_Y_MIN, 0),
       GetProgramOptionAsDouble(av, OPT_CLIP_Z_MIN, 0) >>

MinBound(av) ==
    << GetProgramOptionAsDouble(av, OPT_CLIP_X_MIN, DoubleLowest),
       GetProgramOptionAsDouble(av, OPT_CLIP_Y_MIN, DoubleLowest),
       GetProgramOptionAsDouble(av, OPT_CLIP_Z_MIN, DoubleLowest) >>

MaxBound(av) ==
    << GetProgramOptionAsDouble(av, OPT_CLIP_X_MAX, DoubleMax),
       GetProgramOptionAsDouble(av, OPT_CLIP_Y_MAX, DoubleMax),
       GetProgramOptionAsDouble(av, OPT_CLIP_Z_MAX, DoubleMax) >>

VoxelSize(av) == GetProgramOptionAsDouble(av, OPT_VOXEL_SAMPLE, 0)
Radius(av) == GetProgramOptionAsDouble(av, OPT_ESTIMATE_NORMALS, 0)
Direction(av) == GetProgramOptionAsEigenVectorXd(av, OPT_ORIENT_NORMALS)

\* lines 67-86: the cloud after the clip block
ClipResult(av, c) ==
    IF ClipActive(av) THEN CropPointCloud(c, MinBound(av), MaxBound(av)) ELSE c

\* lines 89-97: the cloud after the voxel block
VoxelResult(av, c) ==
    IF VoxelSize(av) > 0 THEN VoxelDownSample(c, VoxelSize(av)) ELSE c

\* Faulty variant (C10): the overload decided by the cloud as it was loaded.
EstimateMode_FromInput(c) ==
    IF HasNormals(in_cloud) THEN "existing" ELSE "direction"

\* lines 104-109: the overload called, as decided by the cloud at hand
EstimateMode(c) == IF HasNormals(c) THEN "existing" ELSE "direction"

\* lines 100-111: the clouds the estimate block may leave, one for each
\* outcome of the neighbourhood search
EstimateResults(av, c) ==
    IF Radius(av) > 0
    THEN { IF EstimateMode(c) = "existing"
           THEN EstimateNormalsWrtExisting(c, raw)
           ELSE EstimateNormalsToward(c, DOWN, raw) :
             raw \in [1..Len(c.points) -> RawNormals] }
    ELSE {c}

\* Faulty variant (C9): the orient block guarded by its option alone.
OrientRuns_ConfigOnly(av, c) == Len(Direction(av)) = 3

\* line 116
OrientRuns(av, c) == Len(Direction(av)) = 3 /\ HasNormals(c)

\* Faulty variant (C3): the sign test reversed.
OrientNormals_FlipsAligned(c, dir) ==
    [c EXCEPT !.normals =
        [i \in 1..Len(c.normals) |->
            IF Dot(c.normals[i], dir) > 0 THEN Negated(c.normals[i])
            ELSE c.normals[i]]]

\* lines 119-124
OrientNormals(c, dir) ==
    [c EXCEPT !.normals =
        [i \in 1..Len(c.normals) |->
            IF Dot(c.normals[i], dir) < 0 THEN Negated(c.normals[i])
            ELSE c.normals[i]]]

\* Faulty variant (C6): the failure of the read is swallowed and convert
\* goes on with an empty cloud.
ConvertLoad_IgnoresFailure ==
    /\ pc = "load"
    /\ \E r \in CreatePointCloudFromFile(file_in) :
          /\ loads' = Append(loads, [path |-> file_in, ok |-> r.ok])
          /\ cloud' = r.cloud
          /\ in_cloud' = r.cloud
          /\ prev' = r.cloud
          /\ point_num_in' = Len(r.cloud.points)
    /\ processed' = FALSE
    /\ ran' = <<"load">>
    /\ est_call' = "none"
    /\ console_in' = console
    /\ pc' = StageOrder[1]
    /\ UNCHANGED << env, batch, filenames, file_in, file_out, verbosity,
                    console, made, written, returned >>

\* lines 62-64.  A failed read propagates: nothing in convert or main
\* catches it, so the process ends there.
ConvertLoad ==
    /\ pc = "load"
    /\ \E r \in CreatePointCloudFromFile(file_in) :
          /\ loads' = Append(loads, [path |-> file_in, ok |-> r.ok])
          /\ IF r.ok
             THEN /\ cloud' = r.cloud
                  /\ in_cloud' = r.cloud
                  /\ prev' = r.cloud
                  /\ point_num_in' = Len(r.cloud.points)
                  /\ processed' = FALSE
                  /\ ran' = <<"load">>
                  /\ est_call' = "none"
                  /\ console_in' = console
                  /\ pc' = StageOrder[1]
             ELSE /\ pc' = "aborted"
                  /\ UNCHANGED locals
    /\ UNCHANGED << env, batch, filenames, file_in, file_out, verbosity,
                    console, made, written, returned >>

\* lines 66-86
ClipStage ==
    /\ pc = "clip"
    /\ prev' = cloud
    /\ cloud' = ClipResult(argv, cloud)
    /\ IF ClipActive(argv)
       THEN processed' = TRUE /\ ran' = Append(ran, "clip")
       ELSE UNCHANGED << processed, ran >>
    /\ pc' = Following("clip")
    /\ UNCHANGED << env, batch, filenames, file_in, file_out, point_num_in,
                    verbosity, console, made, loads, written, returned,
                    in_cloud, est_call, console_in >>

\* lines 88-97
VoxelStage ==
    /\ pc = "voxel"
    /\ prev' = cloud
    /\ cloud' = VoxelResult(argv, cloud)
    /\ IF VoxelSize(argv) > 0
       THEN processed' = TRUE /\ ran' = Append(ran, "voxel")
       ELSE UNCHANGED << processed, ran >>
    /\ pc' = Following("voxel")
    /\ UNCHANGED << env, batch, filenames, file_in, file_out, point_num_in,
                    verbosity, console, made, loads, written, returned,
                    in_cloud, console_in >>
    /\ UNCHANGED est_call

\* lines 99-111
EstimateStage ==
    /\ pc = "estimate"
    /\ prev' = cloud
    /\ cloud' \in EstimateResults(argv, cloud)
    /\ IF Radius(argv) > 0
       THEN /\ est_call' = EstimateMode(cloud)
            /\ processed' = TRUE
            /\ ran' = Append(ran, "estimate")
       ELSE UNCHANGED << processed, ran, est_call >>
    /\ pc' = Following("estimate")
    /\ UNCHANGED << env, batch, filenames, file_in, file_out, point_num_in,
                    verbosity, console, made, loads, written, returned,
                    in_cloud, console_in >>

\* Faulty variant (C4): the orient block sets the processed flag too.
OrientStage_MarksProcessed ==
    /\ pc = "orient"
    /\ prev' = cloud
    /\ IF OrientRuns(argv, cloud)
       THEN /\ cloud' = OrientNormals(cloud, Direction(argv))
            /\ ran' = Append(ran, "orient")
            /\ processed' = TRUE
       ELSE UNCHANGED << cloud, ran, processed >>
    /\ pc' = Following("orient")
    /\ UNCHANGED << env, batch, filenames, file_in, file_out, point_num_in,
                    verbosity, console, made, loads, written,
                    returned, in_cloud, est_call, console_in >>

\* lines 113-125
OrientStage ==
    /\ pc = "orient"
    /\ prev' = cloud
    /\ IF OrientRuns(argv, cloud)
       THEN /\ cloud' = OrientNormals(cloud, Direction(argv))
            /\ ran' = Append(ran, "orient")
       ELSE UNCHANGED << cloud, ran >>
    /\ pc' = Following("orient")
    /\ UNCHANGED << env, batch, filenames, file_in, file_out, point_num_in,
                    processed, verbosity, console, made, loads, written,
                    returned, in_cloud, est_call, console_in >>

\* lines 127-132
WriteStage ==
    /\ pc = "write"
    /\ console' = IF processed
                  THEN Append(console,
                              Line("info", point_num_in, Len(cloud.points)))
                  ELSE console
    /\ written' = Append(written, file_out)
    /\ ran' = Append(ran, "write")
    /\ pc' = Following("write")
    /\ UNCHANGED << env, batch, filenames, file_in, file_out, cloud,
                    point_num_in, processed, verbosity, made, loads, returned,
                    in_cloud, prev, est_call, console_in >>

\* line 133: the locals die, control is back in main
ConvertReturn ==
    /\ pc = "end"
    /\ cloud' = NoCloud
    /\ in_cloud' = NoCloud
    /\ prev' = NoCloud
    /\ point_num_in' = 0
    /\ processed' = FALSE
    /\ ran' = <<>>
    /\ est_call' = "none"
    /\ console_in' = <<>>
    /\ pc' = IF batch THEN "loop" ELSE "return"
    /\ UNCHANGED << env, batch, filenames, file_in, file_out, verbosity,
                    console, made, loads, written, returned >>

----------------------------------------------------------------------------

Next ==
    \/ MainHelp
    \/ MainFile
    \/ MainDirectory
    \/ MainMissing
    \/ LoopNext
    \/ MainReturn
    \/ ConvertLoad
    \/ ClipStage
    \/ VoxelStage
    \/ EstimateStage
    \/ OrientStage
    \/ WriteStage
    \/ ConvertReturn

Spec == Init /\ [][Next]_vars

----------------------------------------------------------------------------
(* Properties *)

Executed(stage) == \E i \in 1..Len(ran) : ran[i] = stage

\* The position of the first occurrence of a token on the command line
\* (0 when absent).
PositionOf(av, option) ==
    LET at == {i \in 1..Len(av) : av[i] = option}
    IN  IF at = {} THEN 0 ELSE CHOOSE k \in at : \A j \in at : k <= j

\* The number given to an option on the command line.
Given(av, option) == NumberOf(av[PositionOf(av, option) + 1])
IsGiven(av, option) ==
    /\ PositionOf(av, option) > 0
    /\ PositionOf(av, option) < Len(av)
    /\ IsNumber(av[PositionOf(av, option) + 1])

Rank ==
    ("load" :> 0) @@ ("clip" :> 1) @@ ("voxel" :> 2) @@ ("estimate" :> 3) @@
    ("orient" :> 4) @@ ("write" :> 5)

\* C1: in every run of convert the events are a strictly ascending selection
\* of load, clip, voxel-downsample, estimate-normals, orient-normals, write:
\* no event twice, none before an earlier one, the load first, the write
\* last and present once convert has reached its end, whatever the order of
\* the options on the command line.
C1_FixedStageOrder ==
    /\ \A i, j \in 1..Len(ran) : i < j => Rank[ran[i]] < Rank[ran[j]]
    /\ ran # <<>> => ran[1] = "load"
    /\ pc \in {"clip", "voxel", "estimate", "orient", "write"} =>
           ran # <<>> /\ Last(ran) # "write"
    /\ pc = "end" => Last(ran) = "write"

C1_Witness ==
    /\ pc = "end"
    /\ PositionOf(argv, OPT_ORIENT_NORMALS) > 0
    /\ PositionOf(argv, OPT_ORIENT_NORMALS) < PositionOf(argv, OPT_CLIP_Z_MAX)
    /\ ran = << "load", "clip", "orient", "write" >>

\* The target path of a listed entry.
BatchTarget(entry) ==
    GetRegularizedDirectoryName(argv[3]) \o GetFileNameWithoutDirectory(entry)

C3_OrientedNormals ==
    (pc = "end" /\ Len(Direction(argv)) = 3 /\ HasNormals(prev)) =>
        /\ cloud.points = prev.points
        /\ Len(cloud.normals) = Len(prev.normals)
        /\ \A i \in 1..Len(cloud.normals) :
              /\ Dot(cloud.normals[i], Direction(argv)) >= 0
              /\ \/ cloud.normals[i] = prev.normals[i]
                 \/ cloud.normals[i] = Negated(prev.normals[i])

C3_Witness ==
    /\ pc = "end"
    /\ Len(Direction(argv)) = 3
    /\ Executed("estimate")
    /\ ~HasNormals(in_cloud)
    /\ HasNormals(prev)
    /\ \E i \in 1..Len(cloud.normals) :
          cloud.normals[i] = Negated(prev.normals[i])
              /\ cloud.normals[i] # prev.normals[i]

SuppliedBounds(av) == { o \in ClipOptions : IsGiven(av, o) }
Axis(o) ==
    IF o \in {OPT_CLIP_X_MIN, OPT_CLIP_X_MAX} THEN 1
    ELSE IF o \in {OPT_CLIP_Y_MIN, OPT_CLIP_Y_MAX} THEN 2 ELSE 3
IsMinSide(o) == o \in {OPT_CLIP_X_MIN, OPT_CLIP_Y_MIN, OPT_CLIP_Z_MIN}
MeetsSupplied(p, av) ==
    \A o \in SuppliedBounds(av) :
        IF IsMinSide(o) THEN Given(av, o) <= p[Axis(o)]
        ELSE p[Axis(o)] <= Given(av, o)

\* C5: the clip block executes exactly when one of the six clip options is
\* on the command line; the cloud it passes on then holds exactly the points
\* (and their normals) that meet every supplied bound inclusively, in their
\* order, with no constraint from a bound that was not supplied; without any
\* clip option the cloud is passed on as it is.
C5_ClipBounds ==
    pc = "voxel" =>
        /\ Executed("clip") <=>
              \E i \in 1..Len(argv) : argv[i] \in ClipOptions
        /\ LET kept == SelectSeq(Indices(Len(prev.points)),
                           LAMBDA i : MeetsSupplied(prev.points[i], argv))
           IN  IF Executed("clip")
               THEN /\ cloud.points =
                          [k \in 1..Len(kept) |-> prev.points[kept[k]]]
                    /\ HasNormals(prev) =>
                          cloud.normals =
                              [k \in 1..Len(kept) |-> prev.normals[kept[k]]]
               ELSE cloud = prev

C5_Witness ==
    /\ pc = "voxel"
    /\ Executed("clip")
    /\ SuppliedBounds(argv) = {OPT_CLIP_Y_MIN, OPT_CLIP_Z_MAX}
    /\ prev.points = << <<-1, 0, 0>> >>
    /\ cloud.points = prev.points

C7_MissingSource ==
    /\ (srcKind = "none" /\ pc \notin {"main"} /\ returned # <<0>>) =>
          /\ console = <<ERROR_NO_SOURCE>>
          /\ loads = <<>> /\ made = <<>> /\ written = <<>>
          /\ pc \in {"return", "exit"}
    /\ (srcKind = "file" /\ pc \notin {"main"} /\ returned # <<0>>) =>
          /\ ~batch /\ made = <<>>
          /\ pc # "load" => Len(loads) = 1 /\ loads[1].path = argv[2]
          /\ pc \in {"end", "return", "exit"} => written = <<argv[3]>>
          /\ \A i \in 1..Len(console) : console[i].kind # "error"

C7_Witness ==
    /\ srcKind = "none"
    /\ pc = "exit"
    /\ returned = <<1>>
    /\ VoxelSize(argv) > 0
    /\ ClipActive(argv)
    /\ console = <<ERROR_NO_SOURCE>>

\* The help path: fewer than two arguments after the program name, or
\* --help or -h anywhere among the arguments.
HelpPath ==
    \/ Len(argv) - 1 < 2
    \/ \E i \in 1..Len(argv) : argv[i] = <<"--help">> \/ argv[i] = <<"-h">>

\* C8: main returns 0 exactly on the help path, where only the usage text
\* is printed and nothing is loaded, created or written; every other return
\* of main is 1, after a conversion or after the error of a missing source.
C8_ExitStatus ==
    /\ pc # "exit" => returned = <<>>
    /\ pc = "exit" => returned = IF HelpPath THEN <<0>> ELSE <<1>>
    /\ HelpPath =>
          /\ pc \in {"main", "exit"}
          /\ loads = <<>> /\ made = <<>> /\ written = <<>>
          /\ console = IF pc = "exit" THEN <<USAGE>> ELSE <<>>

C8_Witness ==
    /\ pc = "exit"
    /\ returned = <<0>>
    /\ srcKind = "file"
    /\ Len(argv) = 6
    /\ argv[4] = OPT_VOXEL_SAMPLE
    /\ argv[6] = OPT_H

\* The command line with every occurrence of an option and its value removed.
RECURSIVE WithoutOption(_, _)
WithoutOption(av, option) ==
    IF av = <<>> THEN <<>>
    ELSE IF Head(av) = option
         THEN WithoutOption(SubSeq(av, 3, Len(av)), option)
         ELSE <<Head(av)>> \o WithoutOption(Tail(av), option)

\* The command line with estimate-normals switched: off if it is on, on
\* (radius 1, as the first option) if it is off.
EstimateSwitched(av) ==
    IF Radius(av) > 0 THEN WithoutOption(av, OPT_ESTIMATE_NORMALS)
    ELSE SubSeq(av, 1, 3) \o <<OPT_ESTIMATE_NORMALS, NUM_1>>
             \o SubSeq(av, 4, Len(av))

\* Whether the orient block runs when convert is given the command line av
\* and loads the cloud c.
WouldOrient(av, c) ==
    \E e \in EstimateResults(av, VoxelResult(av, ClipResult(av, c))) :
        OrientRuns(av, e)

\* C9 (as stated): switching estimate-normals on or off, for the same input
\* cloud and the same other options, does not change whether orient-normals
\* runs.
C9_Original ==
    pc = "end" =>
        (WouldOrient(EstimateSwitched(argv), in_cloud) <=> Executed("orient"))

\* C9 (amended): clip, voxel-downsample and estimate-normals each execute
\* exactly when their own option group is active (a clip option present, a
\* voxel size > 0, a radius > 0), whatever the other groups and the cloud;
\* orient-normals executes exactly when its direction has three components
\* and the cloud reaching it has normals, so it does depend on the earlier
\* stages: with estimate-normals on it runs on every non-empty cloud, with
\* estimate-normals off only on a cloud that still has its own normals.
C9_StageDecisions ==
    pc = "end" =>
        /\ Executed("clip") <=> \E o \in ClipOptions : PositionOf(argv, o) > 0
        /\ Executed("voxel") <=>
              (IsGiven(argv, OPT_VOXEL_SAMPLE)
                  /\ Given(argv, OPT_VOXEL_SAMPLE) > 0)
        /\ Executed("estimate") <=>
              (IsGiven(argv, OPT_ESTIMATE_NORMALS)
                  /\ Given(argv, OPT_ESTIMATE_NORMALS) > 0)
        /\ Executed("orient") <=>
              (Len(Direction(argv)) = 3 /\ HasNormals(prev))
        /\ Executed("estimate") =>
              (HasNormals(prev) <=> Len(cloud.points) > 0)
        /\ ~Executed("estimate") =>
              (HasNormals(prev) <=>
                  HasNormals(VoxelResult(argv, ClipResult(argv, in_cloud))))

C9_Witness ==
    /\ pc = "end"
    /\ ~HasNormals(in_cloud)
    /\ Executed("estimate")
    /\ Executed("orient")
    /\ ~WouldOrient(EstimateSwitched(argv), in_cloud)

\* C10: with a radius > 0 the estimate block runs and picks its overload
\* from the cloud that reaches it: the one that orients with respect to the
\* existing normals if that cloud has normals, the one that orients toward
\* (0,0,-1) otherwise; the points stay, every point gets a normal, and each
\* normal agrees in sign with its reference.  With the radius absent, zero
\* or negative the block is skipped and the cloud is left as it was.
C10_EstimateMode ==
    pc = "orient" =>
        IF IsGiven(argv, OPT_ESTIMATE_NORMALS)
              /\ Given(argv, OPT_ESTIMATE_NORMALS) > 0
        THEN /\ Executed("estimate")
             /\ est_call = IF HasNormals(prev) THEN "existing" ELSE "direction"
             /\ cloud.points = prev.points
             /\ Len(cloud.normals) = Len(cloud.points)
             /\ \A i \in 1..Len(cloud.normals) :
                   Dot(cloud.normals[i],
                       IF HasNormals(prev) THEN prev.normals[i]
                       ELSE <<0, 0, -1>>) >= 0
        ELSE /\ ~Executed("estimate")
             /\ est_call = "none"
             /\ cloud = prev

C10_Witness ==
    /\ pc = "orient"
    /\ Executed("clip")
    /\ HasNormals(in_cloud)
    /\ ~HasNormals(prev)
    /\ est_call = "direction"

====
